---- MODULE Spec2Model ----
(***************************************************************************)
(* Sword & Shield: the session and round-resolution engine of the          *)
(* real-time game server (src/unnamed/part_000).                           *)
(*                                                                         *)
(* The server is single-threaded and event-driven: every socket handler,   *)
(* the cleanup interval and the throttle timer callback run to completion, *)
(* so each is one action.                                                  *)
(*                                                                         *)
(* Representation                                                          *)
(*  - players is the Map<username, PlayerData> as the sequence of its      *)
(*    values in insertion order (a JS Map iterates in insertion order).    *)
(*  - a username is a sequence of one-character strings.                   *)
(*  - null is 0 for socketId, disconnectedAt and broadcastTimer (socket    *)
(*    ids are numbered from 1, Date.now() is positive), and the empty      *)
(*    sequence for currentRoundSubmission.                                 *)
(*  - scores are exact rationals held as integers in units of 1/ScoreDen;  *)
(*    the code's IEEE doubles are not modelled.                            *)
(*  - timeouts is the runtime's queue of scheduled setTimeout callbacks,    *)
(*    each held as the time at which it is due; broadcastTimer, the handle  *)
(*    the code keeps, is the due time of the timeout it refers to.          *)
(*  - lastOp, unicast and emitted record the handler that ran last, what   *)
(*    it sent to its own socket (socket.emit) and what it sent to every    *)
(*    socket (io.emit); resolves and subsSinceEmit count the rounds        *)
(*    resolved since the last reset and the submissions accepted since the *)
(*    last emission.                                                       *)
(*  - wire holds the submit_choice messages the clients have sent and the  *)
(*    server has not handled yet, each with the number of rounds resolved  *)
(*    when it was sent; a specification without ClientSend hands every     *)
(*    message to its handler as it is sent, and wire stays empty.          *)
(***************************************************************************)
EXTENDS Integers, Sequences, FiniteSets, TLC

VARIABLES players, gameState, currentRound, lastRoundResults, broadcastTimer,
          timeouts, now, sockets, nextSocket, resolves, subsSinceEmit,
          lastOp, unicast, emitted, wire

vars == <<players, gameState, currentRound, lastRoundResults, broadcastTimer,
          timeouts, now, sockets, nextSocket, resolves, subsSinceEmit,
          lastOp, unicast, emitted, wire>>

\* The part of the state the handlers own (session and directory).
game == <<players, gameState, currentRound, lastRoundResults>>

-----------------------------------------------------------------------------
\* Bounds of the model.

\* The socket ids of the connections accepted over a run, in the order they
\* are given out; an id is never reused.
SocketIds == {1, 2}
\* resolve_round executions between two resets (the code lets start_round
\* reopen a resolved round without end, so the scores need a bound).
MaxResolves == 3
\* Saturation of the count of submissions accepted since the last emission.
MaxCount == 2
\* Most submitters of a round: the identities the clients use.
MaxSubmitters == 3
\* Most submit_choice messages sent and not yet handled.
MaxInFlight == 1

-----------------------------------------------------------------------------
\* Program constants.

RECONNECT_GRACE_MS == 600000
THROTTLE_MS == 500
TOTAL_ROUNDS == 3
NAME_MAX == 20
X_MIN == 1
X_MAX == 10
Z_MIN == 0
Z_MAX == 100
ADMIN_PASSWORD == "changeme"

Phases == {"lobby", "round_input", "round_resolution", "final_standings"}

-----------------------------------------------------------------------------
\* Arithmetic helpers.

Abs(n) == IF n < 0 THEN -n ELSE n

RECURSIVE Gcd(_, _)
Gcd(a, b) == IF b = 0 THEN a ELSE Gcd(b, a % b)

RECURSIVE LcmUpTo(_)
LcmUpTo(n) == IF n <= 1 THEN 1 ELSE (LcmUpTo(n - 1) * n) \div Gcd(LcmUpTo(n - 1), n)

\* Every score the code computes from at most MaxSubmitters submissions with
\* a whole z is a whole number of units of 1/ScoreDen.
ScoreDen == 10 * LcmUpTo(MaxSubmitters)

-----------------------------------------------------------------------------
\* Client inputs.

\* A join_lobby username as received: a string (its characters) or anything
\* else (undefined, null, a number, an object).
NotAString == [isString |-> FALSE, chars |-> <<>>]

Str(cs) == [isString |-> TRUE, chars |-> cs]

\* A submit_choice field as received: <<"int", n>> is the number n,
\* <<"frac", n>> the number n + 1/2 (n >= 0), <<"junk", 0>> anything that
\* does not start with a number (undefined, "abc", an object).
Number(n) == <<"int", n>>

Frac(n) == <<"frac", n>>

Junk == <<"junk", 0>>

\* Every input the clients of the full server send.
RawNames == {NotAString, Str(<<>>), Str(<<"a">>), Str(<<"b">>), Str(<<" ", "a">>)}

RawX == {Number(5), Number(8), Number(0), Number(11), Junk}

RawZ == {Number(0), Number(50), Number(100), Number(101), Junk}

AdminActions == {"start_round", "resolve_round", "next_round", "reset_game", "bogus"}

Passwords == {ADMIN_PASSWORD, "wrong"}

\* The instants at which the full server's handlers read the clock: start-up,
\* one coalescing window later, and once a disconnection at either has just
\* reached, or just passed, the grace period.
Instants ==
    {1, 1 + THROTTLE_MS,
     1 + RECONNECT_GRACE_MS, 1 + RECONNECT_GRACE_MS + 1,
     1 + THROTTLE_MS + RECONNECT_GRACE_MS, 1 + THROTTLE_MS + RECONNECT_GRACE_MS + 1}

-----------------------------------------------------------------------------
\* String helpers of join_lobby.

IsSpace(c) == c = " "

RECURSIVE TrimLeft(_)
TrimLeft(cs) == IF cs # <<>> /\ IsSpace(Head(cs)) THEN TrimLeft(Tail(cs)) ELSE cs

RECURSIVE TrimRight(_)
TrimRight(cs) ==
    IF cs # <<>> /\ IsSpace(cs[Len(cs)])
    THEN TrimRight(SubSeq(cs, 1, Len(cs) - 1))
    ELSE cs

\* String.prototype.trim
Trim(cs) == TrimRight(TrimLeft(cs))

\* String.prototype.substring(0, n)
Substring0(cs, n) == SubSeq(cs, 1, IF Len(cs) < n THEN Len(cs) ELSE n)

\* username.trim().substring(0, 20)
CleanName(raw) == Substring0(Trim(raw.chars), NAME_MAX)

\* !username || typeof username !== 'string'
UsernameRejected(raw) == ~raw.isString \/ raw.chars = <<>>

-----------------------------------------------------------------------------
\* Number parsing of submit_choice.

NaN == [nan |-> TRUE, val |-> 0]

Num(n) == [nan |-> FALSE, val |-> n]

\* parseInt(x, 10): the integer part, or NaN.
ParseInt(raw) ==
    CASE raw[1] = "int" -> Num(raw[2])
      [] raw[1] = "frac" -> Num(raw[2])
      [] OTHER -> NaN

\* parseFloat(z) on the inputs of RawZ (whole numbers and non-numbers).
ParseFloat(raw) ==
    CASE raw[1] = "int" -> Num(raw[2])
      [] OTHER -> NaN

\* isNaN(parsedX) || parsedX < 1 || parsedX > 10
XRejected(parsedX) == parsedX.nan \/ parsedX.val < X_MIN \/ parsedX.val > X_MAX

\* isNaN(parsedZ) || parsedZ < 0 || parsedZ > 100
ZRejected(parsedZ) == parsedZ.nan \/ parsedZ.val < Z_MIN \/ parsedZ.val > Z_MAX

-----------------------------------------------------------------------------
\* The player directory.

\* currentRoundSubmission is null (the empty sequence) or one { x, z }.
NoSubmission == <<>>

Submission(x, z) == <<[x |-> x, z |-> z]>>

NewPlayer(cleanName, socketId) ==
    [socketId |-> socketId, username |-> cleanName, connected |-> TRUE,
     disconnectedAt |-> 0, cumulativeScore |-> 0,
     currentRoundSubmission |-> NoSubmission]

HasSubmission(p) == p.currentRoundSubmission # NoSubmission

\* Faulty variant: the lookup finds an entry only while it is offline.
PlayerIndexOffline(ps, name) ==
    IF \E i \in 1..Len(ps) : ps[i].username = name /\ ~ps[i].connected
    THEN CHOOSE i \in 1..Len(ps) : ps[i].username = name /\ ~ps[i].connected
    ELSE 0

\* players.get(name): the index of the entry keyed name, 0 when there is none.
PlayerIndex(ps, name) ==
    IF \E i \in 1..Len(ps) : ps[i].username = name
    THEN CHOOSE i \in 1..Len(ps) : ps[i].username = name
    ELSE 0

\* findPlayerBySocketId: the index of the first entry bound to socketId, 0
\* when there is none.
FindPlayerBySocketId(ps, socketId) ==
    IF \E i \in 1..Len(ps) : ps[i].socketId = socketId
    THEN CHOOSE i \in 1..Len(ps) :
            /\ ps[i].socketId = socketId
            /\ \A j \in 1..(i - 1) : ps[j].socketId # socketId
    ELSE 0

\* Faulty variant: clearing the submissions clears the scores as well.
ClearSubmissionsAndScores(ps) ==
    [i \in 1..Len(ps) |->
        [ps[i] EXCEPT !.cumulativeScore = 0, !.currentRoundSubmission = NoSubmission]]

\* Faulty variant: only the online players' submissions are cleared.
ClearSubmissionsOnline(ps) ==
    [i \in 1..Len(ps) |->
        IF ps[i].connected
        THEN [ps[i] EXCEPT !.currentRoundSubmission = NoSubmission]
        ELSE ps[i]]

\* clearSubmissions()
ClearSubmissions(ps) ==
    [i \in 1..Len(ps) |-> [ps[i] EXCEPT !.currentRoundSubmission = NoSubmission]]

\* Faulty variant: resetGame clears the submissions and keeps the scores.
ResetPlayersKeepScores(ps) == ClearSubmissions(ps)

\* Faulty variant: resetGame clears the scores and keeps the submissions.
ResetPlayersKeepSubmissions(ps) ==
    [i \in 1..Len(ps) |-> [ps[i] EXCEPT !.cumulativeScore = 0]]

\* The loop of resetGame over the players.
ResetPlayers(ps) ==
    [i \in 1..Len(ps) |->
        [ps[i] EXCEPT !.cumulativeScore = 0, !.currentRoundSubmission = NoSubmission]]

-----------------------------------------------------------------------------
\* resolveRound.

\* Faulty variant: only the online players' submissions are scored.
SubmittersOnline(ps) == SelectSeq(ps, LAMBDA p : HasSubmission(p) /\ p.connected)

\* The entries with a submission, in the order of the Map.
Submitters(ps) == SelectSeq(ps, HasSubmission)

\* freqMap[x] after the frequency loop.
FreqMap(submitters, x) ==
    Cardinality({i \in 1..Len(submitters) : submitters[i].currentRoundSubmission[1].x = x})

\* Y = (k / N) * 100
Popularity(k, N) == (k * 100 * ScoreDen) \div N

\* Faulty variant: the base score rewards the popular choice.
BaseScoreOfPopular(x, Y) == x * (Y \div 100)

\* baseScore = x * (1 - (Y / 100))
BaseScore(x, Y) == x * (ScoreDen - Y \div 100)

\* Faulty variant: the penalty keeps the sign of Y - z.
PenaltySigned(Y, z) == (Y - z * ScoreDen) \div 10

\* penalty = Math.abs(Y - z) / 10
Penalty(Y, z) == Abs(Y - z * ScoreDen) \div 10

\* roundScore = baseScore - penalty
RoundScore(baseScore, penalty) == baseScore - penalty

\* One element of lastRoundResults; Y, baseScore, penalty and roundScore are
\* in units of 1/ScoreDen.
RoundResult(submitters, s) ==
    LET x == s.currentRoundSubmission[1].x
        z == s.currentRoundSubmission[1].z
        k == FreqMap(submitters, x)
        N == Len(submitters)
        Y == Popularity(k, N)
        baseScore == BaseScore(x, Y)
        penalty == Penalty(Y, z)
    IN  [username |-> s.username, x |-> x, z |-> z, k |-> k, Y |-> Y,
         baseScore |-> baseScore, penalty |-> penalty,
         roundScore |-> RoundScore(baseScore, penalty)]

\* lastRoundResults after resolveRound.
ResolveResults(ps) ==
    LET submitters == Submitters(ps)
    IN  [i \in 1..Len(submitters) |-> RoundResult(submitters, submitters[i])]

\* cumulativeScore of the entry p after resolveRound: the map over the
\* submitters adds the roundScore of each to the entry it is keyed by.
Accumulate(ps, p) ==
    LET submitters == Submitters(ps)
        mine == {j \in 1..Len(submitters) : submitters[j].username = p.username}
    IN  IF mine = {} THEN p.cumulativeScore
        ELSE p.cumulativeScore +
             RoundResult(submitters, submitters[CHOOSE j \in mine : TRUE]).roundScore

\* players after resolveRound (submissions are left in place).
ResolvePlayers(ps) ==
    [i \in 1..Len(ps) |-> [ps[i] EXCEPT !.cumulativeScore = Accumulate(ps, ps[i])]]

-----------------------------------------------------------------------------
\* buildGameStatePayload.

\* Math.round(v * 100) / 100, in hundredths; v is in units of 1/ScoreDen.
Round2(v) == (200 * v + ScoreDen) \div (2 * ScoreDen)

LeaderboardEntry(p) ==
    [username |-> p.username, cumulativeScore |-> Round2(p.cumulativeScore),
     connected |-> p.connected]

\* Faulty variant: an unstable sort, e goes before the elements it ties with.
InsertDescUnstable(sorted, e) ==
    LET notLarger == {i \in 1..Len(sorted) : sorted[i].cumulativeScore <= e.cumulativeScore}
        at == IF notLarger = {} THEN Len(sorted) + 1
              ELSE CHOOSE i \in notLarger : \A j \in notLarger : i <= j
    IN  SubSeq(sorted, 1, at - 1) \o <<e>> \o SubSeq(sorted, at, Len(sorted))

\* Array.prototype.sort((a, b) => b.cumulativeScore - a.cumulativeScore) is
\* stable: e goes before the first element with a smaller score.
InsertDesc(sorted, e) ==
    LET smaller == {i \in 1..Len(sorted) : sorted[i].cumulativeScore < e.cumulativeScore}
        at == IF smaller = {} THEN Len(sorted) + 1
              ELSE CHOOSE i \in smaller : \A j \in smaller : i <= j
    IN  SubSeq(sorted, 1, at - 1) \o <<e>> \o SubSeq(sorted, at, Len(sorted))

RECURSIVE SortDesc(_)
SortDesc(es) ==
    IF es = <<>> THEN <<>>
    ELSE InsertDesc(SortDesc(SubSeq(es, 1, Len(es) - 1)), es[Len(es)])

Leaderboard(ps) == SortDesc([i \in 1..Len(ps) |-> LeaderboardEntry(ps[i])])

ConnectedCount(ps) == Cardinality({i \in 1..Len(ps) : ps[i].connected})

\* Faulty variant: offline players' submissions are counted too.
SubmittedCountAll(ps, gs) ==
    IF gs = "round_input"
    THEN Cardinality({i \in 1..Len(ps) : HasSubmission(ps[i])})
    ELSE 0

SubmittedCount(ps, gs) ==
    IF gs = "round_input"
    THEN Cardinality({i \in 1..Len(ps) : ps[i].connected /\ HasSubmission(ps[i])})
    ELSE 0

PayloadResult(r) ==
    [username |-> r.username, x |-> r.x, z |-> r.z, k |-> r.k, Y |-> Round2(r.Y),
     baseScore |-> Round2(r.baseScore), penalty |-> Round2(r.penalty),
     roundScore |-> Round2(r.roundScore)]

ShowsResults(gs) == gs = "round_resolution" \/ gs = "final_standings"

BuildGameStatePayload(ps, gs, cr, results) ==
    [phase |-> gs,
     currentRound |-> cr,
     leaderboard |-> Leaderboard(ps),
     playerCount |-> ConnectedCount(ps),
     submittedCount |-> SubmittedCount(ps, gs),
     roundResults |-> IF ShowsResults(gs)
                      THEN [i \in 1..Len(results) |-> PayloadResult(results[i])]
                      ELSE <<>>]

-----------------------------------------------------------------------------
\* Messages.

\* socket.emit('error_message', { message })
ErrorMessage(s, message) ==
    <<[to |-> s, event |-> "error_message", message |-> message,
       x |-> 0, z |-> 0]>>

\* socket.emit('submission_ack', { message, x, z })
SubmissionAck(s, round, x, z) ==
    <<[to |-> s, event |-> "submission_ack",
       message |-> <<"Round", ToString(round), "choice received.">>,
       x |-> x, z |-> z]>>

\* The handler that ran last: its event, its socket (0 for a timer), the
\* admin action it looked at (the handler reads it only once the password
\* has matched), the phase and the throttle it found, whether it put a
\* submission in the place of a different one (submit_choice alone does),
\* the username it cleaned and whether it repeats the join handled just
\* before it (join_lobby alone).
Op(op, s, action) ==
    [op |-> op, socket |-> s, action |-> action, phase |-> gameState,
     pending |-> broadcastTimer # 0, replaced |-> FALSE, name |-> <<>>,
     again |-> FALSE]

-----------------------------------------------------------------------------
\* The broadcast throttle.

\* Faulty variant: the handle is never found set.
NeverScheduled(timer) == FALSE

\* Faulty variant: the handle is always found set.
AlwaysScheduled(timer) == TRUE

\* if (broadcastTimer)
Scheduled(timer) == timer # 0

\* Faulty variant: the handle is dropped and the timeout stays scheduled.
KeepTimeout(queue, timer) == queue

\* clearTimeout(timer): the timeout due at timer leaves the queue.
ClearTimeout(queue, timer) ==
    IF \E i \in 1..Len(queue) : queue[i] = timer
    THEN LET i == CHOOSE i \in 1..Len(queue) : queue[i] = timer
         IN  SubSeq(queue, 1, i - 1) \o SubSeq(queue, i + 1, Len(queue))
    ELSE queue

\* Saturating count of the submissions accepted since the last emission.
CountUp(n) == IF n < MaxCount THEN n + 1 ELSE n

\* broadcastThrottled(): schedules the timeout unless one is scheduled.
BroadcastThrottled ==
    /\ IF Scheduled(broadcastTimer)
       THEN UNCHANGED <<broadcastTimer, timeouts>>
       ELSE /\ broadcastTimer' = now + THROTTLE_MS
            /\ timeouts' = Append(timeouts, now + THROTTLE_MS)
    /\ emitted' = <<>>
    /\ subsSinceEmit' = CountUp(subsSinceEmit)

\* broadcastImmediate(): cancels the scheduled timeout and emits the payload
\* of the state the handler leaves.
BroadcastImmediate ==
    /\ IF Scheduled(broadcastTimer)
       THEN /\ timeouts' = ClearTimeout(timeouts, broadcastTimer)
            /\ broadcastTimer' = 0
       ELSE UNCHANGED <<broadcastTimer, timeouts>>
    /\ emitted' = <<BuildGameStatePayload(players', gameState', currentRound',
                                          lastRoundResults')>>
    /\ subsSinceEmit' = 0

\* A handler that returns before any broadcast.
NoBroadcast ==
    /\ emitted' = <<>>
    /\ UNCHANGED <<broadcastTimer, timeouts, subsSinceEmit>>

\* The setTimeout callback of broadcastThrottled: a timeout of the queue runs
\* at or after the time it is due.
BroadcastTimerFire ==
    /\ \E i \in 1..Len(timeouts) :
          /\ now >= timeouts[i]
          /\ timeouts' = SubSeq(timeouts, 1, i - 1) \o SubSeq(timeouts, i + 1, Len(timeouts))
    /\ broadcastTimer' = 0
    /\ emitted' = <<BuildGameStatePayload(players, gameState, currentRound,
                                          lastRoundResults)>>
    /\ subsSinceEmit' = 0
    /\ unicast' = <<>>
    /\ lastOp' = Op("broadcast_timer", 0, "")
    /\ UNCHANGED <<game, now, sockets, nextSocket, resolves, wire>>

-----------------------------------------------------------------------------
\* Environment: connections and the clock.

\* io.on('connection'): a new socket with a fresh id.
Connection ==
    /\ nextSocket + 1 \in SocketIds
    /\ nextSocket' = nextSocket + 1
    /\ sockets' = sockets \cup {nextSocket + 1}
    /\ unicast' = <<>>
    /\ lastOp' = Op("connection", nextSocket + 1, "")
    /\ NoBroadcast
    /\ UNCHANGED <<game, now, resolves, wire>>

\* Time passes between two events: the clock reaches the instant t.
Tick(t) ==
    /\ t > now
    /\ now' = t
    /\ unicast' = <<>>
    /\ lastOp' = Op("tick", 0, "")
    /\ NoBroadcast
    /\ UNCHANGED <<game, sockets, nextSocket, resolves, wire>>

\* handleSubmit of the client: a submit_choice { x, z } leaves on socket s
\* while the round is open and is handled later; the message carries no
\* round, the model notes how many rounds had been resolved when it left.
ClientSend(s, x, z) ==
    /\ s \in sockets
    /\ gameState = "round_input"
    /\ Cardinality(wire) < MaxInFlight
    /\ wire' = wire \cup {[socket |-> s, x |-> x, z |-> z, resolves |-> resolves]}
    /\ unicast' = <<>>
    /\ lastOp' = Op("client_submit", s, "")
    /\ NoBroadcast
    /\ UNCHANGED <<game, now, sockets, nextSocket, resolves>>

-----------------------------------------------------------------------------
\* socket.on('join_lobby')

\* Faulty variant: a reconnect overwrites the entry with a fresh one.
ReattachAsNew(p, s) == NewPlayer(p.username, s)

\* Faulty variant: a reconnect leaves disconnectedAt as it was.
ReattachKeepsStamp(p, s) == [p EXCEPT !.socketId = s, !.connected = TRUE]

\* The reconnect branch: the new socket is attached to the existing entry.
Reattach(p, s) == [p EXCEPT !.socketId = s, !.connected = TRUE, !.disconnectedAt = 0]

\* The join on socket s repeats the join handled just before it: the same
\* socket, the same cleaned username, and that join was accepted.
Repeats(op, msgs, s, raw) ==
    /\ op.op = "join_lobby"
    /\ op.socket = s
    /\ msgs = <<>>
    /\ ~UsernameRejected(raw)
    /\ op.name = CleanName(raw)

JoinLobby(s, raw) ==
    /\ s \in sockets
    /\ lastOp' = [Op("join_lobby", s, "") EXCEPT
                     !.name = IF UsernameRejected(raw) THEN <<>> ELSE CleanName(raw),
                     !.again = Repeats(lastOp, unicast, s, raw)]
    /\ UNCHANGED <<gameState, currentRound, lastRoundResults, now, sockets,
                   nextSocket, resolves, wire>>
    /\ \/ /\ UsernameRejected(raw)
          /\ unicast' = ErrorMessage(s, <<"A valid username is required.">>)
          /\ UNCHANGED players
          /\ NoBroadcast
       \/ /\ ~UsernameRejected(raw)
          /\ PlayerIndex(players, CleanName(raw)) # 0
          /\ players' = [players EXCEPT ![PlayerIndex(players, CleanName(raw))] =
                            Reattach(@, s)]
          /\ unicast' = <<>>
          /\ BroadcastImmediate
       \/ /\ ~UsernameRejected(raw)
          /\ PlayerIndex(players, CleanName(raw)) = 0
          /\ players' = Append(players, NewPlayer(CleanName(raw), s))
          /\ unicast' = <<>>
          /\ BroadcastImmediate

-----------------------------------------------------------------------------
\* socket.on('submit_choice')

\* Faulty variant: submissions are still taken once the round is resolved.
SubmissionsOpenInResolution(gs) == gs = "round_input" \/ gs = "round_resolution"

\* Faulty variant: submissions are taken in every phase but the lobby.
SubmissionsOpenAfterLobby(gs) == gs # "lobby"

SubmissionsOpen(gs) == gs = "round_input"

\* Faulty variant: the first submission of a round stands.
AssignOnce(p, x, z) ==
    IF HasSubmission(p) THEN p ELSE [p EXCEPT !.currentRoundSubmission = Submission(x, z)]

\* player.currentRoundSubmission = { x: parsedX, z: parsedZ }
Assign(p, x, z) == [p EXCEPT !.currentRoundSubmission = Submission(x, z)]

\* The handler on socket s gets as far as the assignment and player i holds
\* a submission other than the one it assigns.
Replaces(ps, gs, i, x, z) ==
    /\ i # 0
    /\ SubmissionsOpen(gs)
    /\ ~XRejected(ParseInt(x))
    /\ ~ZRejected(ParseFloat(z))
    /\ HasSubmission(ps[i])
    /\ ps[i].currentRoundSubmission # Submission(ParseInt(x).val, ParseFloat(z).val)

\* The messages still to be handled once the submit_choice { x, z } of
\* socket s has been.
Delivered(w, s, x, z) == {m \in w : ~(m.socket = s /\ m.x = x /\ m.z = z)}

SubmitChoice(s, x, z) ==
    /\ s \in sockets
    /\ wire' = Delivered(wire, s, x, z)
    /\ lastOp' = [Op("submit_choice", s, "") EXCEPT
                     !.replaced = Replaces(players, gameState,
                                           FindPlayerBySocketId(players, s), x, z)]
    /\ UNCHANGED <<gameState, currentRound, lastRoundResults, now, sockets,
                   nextSocket, resolves>>
    /\ \/ /\ FindPlayerBySocketId(players, s) = 0
          /\ unicast' = ErrorMessage(s, <<"You must join the lobby first.">>)
          /\ UNCHANGED players
          /\ NoBroadcast
       \/ /\ FindPlayerBySocketId(players, s) # 0
          /\ ~SubmissionsOpen(gameState)
          /\ unicast' = ErrorMessage(s, <<"Submissions are not open right now.">>)
          /\ UNCHANGED players
          /\ NoBroadcast
       \/ /\ FindPlayerBySocketId(players, s) # 0
          /\ SubmissionsOpen(gameState)
          /\ XRejected(ParseInt(x))
          /\ unicast' = ErrorMessage(s, <<"Sword (x) must be an integer between 1 and 10.">>)
          /\ UNCHANGED players
          /\ NoBroadcast
       \/ /\ FindPlayerBySocketId(players, s) # 0
          /\ SubmissionsOpen(gameState)
          /\ ~XRejected(ParseInt(x))
          /\ ZRejected(ParseFloat(z))
          /\ unicast' = ErrorMessage(s, <<"Shield (z) must be a number between 0 and 100.">>)
          /\ UNCHANGED players
          /\ NoBroadcast
       \/ /\ FindPlayerBySocketId(players, s) # 0
          /\ SubmissionsOpen(gameState)
          /\ ~XRejected(ParseInt(x))
          /\ ~ZRejected(ParseFloat(z))
          /\ players' = [players EXCEPT
                            ![FindPlayerBySocketId(players, s)] =
                                Assign(@, ParseInt(x).val, ParseFloat(z).val)]
          /\ unicast' = SubmissionAck(s, currentRound, ParseInt(x).val, ParseFloat(z).val)
          /\ BroadcastThrottled

-----------------------------------------------------------------------------
\* socket.on('admin_action')

\* Faulty variant: only a missing password is refused.
PasswordRejectedIfEmpty(password) == password = ""

\* Faulty variant: the password is looked at once the game has left the lobby.
PasswordRejectedAfterLobby(password) == password # ADMIN_PASSWORD /\ gameState # "lobby"

\* password !== ADMIN_PASSWORD
PasswordRejected(password) == password # ADMIN_PASSWORD

\* Faulty variant: start_round is refused during round_input only.
StartRoundRejectedInInput(gs) == gs = "round_input"

\* start_round: gameState !== 'lobby' && gameState !== 'round_resolution'
StartRoundRejected(gs) == gs # "lobby" /\ gs # "round_resolution"

\* Faulty variant: resolve_round is refused in the lobby only.
ResolveRoundRejectedInLobby(gs) == gs = "lobby"

\* resolve_round: gameState !== 'round_input'
ResolveRoundRejected(gs) == gs # "round_input"

\* Faulty variant: next_round is refused before the first resolution only.
NextRoundRejectedEarly(gs) == gs = "lobby" \/ gs = "round_input"

\* next_round: gameState !== 'round_resolution'
NextRoundRejected(gs) == gs # "round_resolution"

\* next_round: currentRound >= 3
\* Faulty variant: the last round is taken for one that has a successor.
IsLastRoundLate(cr) == cr > TOTAL_ROUNDS

\* currentRound >= 3
IsLastRound(cr) == cr >= TOTAL_ROUNDS

\* A handler that leaves the session and the directory alone and sends an
\* error to its own socket.
AdminError(s, message) ==
    /\ unicast' = ErrorMessage(s, message)
    /\ UNCHANGED <<game, resolves>>
    /\ NoBroadcast

AdminAction(s, action, password) ==
    /\ s \in sockets
    /\ lastOp' = Op("admin_action", s, IF PasswordRejected(password) THEN "" ELSE action)
    /\ UNCHANGED <<now, sockets, nextSocket, wire>>
    /\ \/ /\ PasswordRejected(password)
          /\ AdminError(s, <<"Invalid admin password.">>)
       \/ /\ ~PasswordRejected(password)
          /\ action = "start_round"
          /\ StartRoundRejected(gameState)
          /\ AdminError(s, <<"Cannot start round from phase", gameState>>)
       \/ /\ ~PasswordRejected(password)
          /\ action = "start_round"
          /\ ~StartRoundRejected(gameState)
          /\ players' = ClearSubmissions(players)
          /\ gameState' = "round_input"
          /\ lastRoundResults' = <<>>
          /\ unicast' = <<>>
          /\ UNCHANGED <<currentRound, resolves>>
          /\ BroadcastImmediate
       \/ /\ ~PasswordRejected(password)
          /\ action = "resolve_round"
          /\ ResolveRoundRejected(gameState)
          /\ AdminError(s, <<"Cannot resolve from phase", gameState>>)
       \/ /\ ~PasswordRejected(password)
          /\ action = "resolve_round"
          /\ ~ResolveRoundRejected(gameState)
          /\ resolves < MaxResolves
          /\ resolves' = resolves + 1
          /\ players' = ResolvePlayers(players)
          /\ lastRoundResults' = ResolveResults(players)
          /\ gameState' = "round_resolution"
          /\ unicast' = <<>>
          /\ UNCHANGED currentRound
          /\ BroadcastImmediate
       \/ /\ ~PasswordRejected(password)
          /\ action = "next_round"
          /\ NextRoundRejected(gameState)
          /\ AdminError(s, <<"Cannot advance from phase", gameState>>)
       \/ /\ ~PasswordRejected(password)
          /\ action = "next_round"
          /\ ~NextRoundRejected(gameState)
          /\ IsLastRound(currentRound)
          /\ gameState' = "final_standings"
          /\ unicast' = <<>>
          /\ UNCHANGED <<players, currentRound, lastRoundResults, resolves>>
          /\ BroadcastImmediate
       \/ /\ ~PasswordRejected(password)
          /\ action = "next_round"
          /\ ~NextRoundRejected(gameState)
          /\ ~IsLastRound(currentRound)
          /\ currentRound' = currentRound + 1
          /\ players' = ClearSubmissions(players)
          /\ gameState' = "round_input"
          /\ lastRoundResults' = <<>>
          /\ unicast' = <<>>
          /\ UNCHANGED resolves
          /\ BroadcastImmediate
       \/ /\ ~PasswordRejected(password)
          /\ action = "reset_game"
          /\ gameState' = "lobby"
          /\ currentRound' = 1
          /\ lastRoundResults' = <<>>
          /\ players' = ResetPlayers(players)
          /\ resolves' = 0
          /\ unicast' = <<>>
          /\ BroadcastImmediate
       \/ /\ ~PasswordRejected(password)
          /\ action \notin {"start_round", "resolve_round", "next_round", "reset_game"}
          /\ AdminError(s, <<"Unknown admin action:", action>>)

-----------------------------------------------------------------------------
\* socket.on('disconnect')

\* The entry the closed socket was bound to, marked offline at time t.
MarkOffline(p, t) == [p EXCEPT !.connected = FALSE, !.disconnectedAt = t, !.socketId = 0]

Disconnect(s) ==
    /\ s \in sockets
    /\ sockets' = sockets \ {s}
    /\ lastOp' = Op("disconnect", s, "")
    /\ wire' = {m \in wire : m.socket # s}
    /\ players' = IF FindPlayerBySocketId(players, s) # 0
                  THEN [players EXCEPT ![FindPlayerBySocketId(players, s)] =
                            MarkOffline(@, now)]
                  ELSE players
    /\ unicast' = <<>>
    /\ UNCHANGED <<gameState, currentRound, lastRoundResults, now, nextSocket, resolves>>
    /\ BroadcastImmediate

-----------------------------------------------------------------------------
\* The cleanup interval.

\* Faulty variant: a player is stale from the grace period on.
StaleAtGrace(p, t) ==
    ~p.connected /\ p.disconnectedAt # 0 /\ t - p.disconnectedAt >= RECONNECT_GRACE_MS

\* Faulty variant: a player is stale as soon as it is offline.
StaleOffline(p, t) == ~p.connected

\* !data.connected && data.disconnectedAt && (now - data.disconnectedAt > RECONNECT_GRACE_MS)
Stale(p, t) ==
    ~p.connected /\ p.disconnectedAt # 0 /\ t - p.disconnectedAt > RECONNECT_GRACE_MS

Kept(p) == ~Stale(p, now)

\* Faulty variant: the sweep reports a purge of two players or more.
PurgedSeveral(ps, psAfter) == Len(psAfter) + 1 < Len(ps)

\* purged > 0
Purged(ps, psAfter) == Len(psAfter) < Len(ps)

Cleanup ==
    /\ lastOp' = Op("cleanup", 0, "")
    /\ UNCHANGED wire
    /\ players' = SelectSeq(players, Kept)
    /\ unicast' = <<>>
    /\ UNCHANGED <<gameState, currentRound, lastRoundResults, now, sockets,
                   nextSocket, resolves>>
    /\ IF Purged(players, players') THEN BroadcastImmediate ELSE NoBroadcast

-----------------------------------------------------------------------------
\* The server.

Init ==
    /\ players = <<>>
    /\ gameState = "lobby"
    /\ currentRound = 1
    /\ lastRoundResults = <<>>
    /\ broadcastTimer = 0
    /\ timeouts = <<>>
    /\ now = 1
    /\ sockets = {}
    /\ nextSocket = 0
    /\ resolves = 0
    /\ subsSinceEmit = 0
    /\ lastOp = [op |-> "listen", socket |-> 0, action |-> "", phase |-> "lobby",
                 pending |-> FALSE, replaced |-> FALSE,
                 name |-> <<>>, again |-> FALSE]
    /\ unicast = <<>>
    /\ emitted = <<>>
    /\ wire = {}

\* The full server.
Next ==
    \/ Connection
    \/ \E t \in Instants : Tick(t)
    \/ \E s \in sockets, raw \in RawNames : JoinLobby(s, raw)
    \/ \E s \in sockets, x \in RawX, z \in RawZ : SubmitChoice(s, x, z)
    \/ \E s \in sockets, action \in AdminActions, password \in Passwords :
          AdminAction(s, action, password)
    \/ \E s \in sockets : Disconnect(s)
    \/ Cleanup
    \/ BroadcastTimerFire

Spec == Init /\ [][Next]_vars

-----------------------------------------------------------------------------
\* The session and the directory: the server with two identities, every admin
\* action under both passwords, and a clock that stands still (nothing gets
\* stale and no timeout falls due).

GameNames == {Str(<<"a">>), Str(<<"b">>)}

GameX == {Number(5)}

GameZ == {Number(50)}

GameActions == {"start_round", "resolve_round", "next_round", "reset_game"}

NextGame ==
    \/ Connection
    \/ \E s \in sockets, raw \in GameNames : JoinLobby(s, raw)
    \/ \E s \in sockets, x \in GameX, z \in GameZ : SubmitChoice(s, x, z)
    \/ \E s \in sockets, action \in GameActions, password \in Passwords :
          AdminAction(s, action, password)
    \/ \E s \in sockets : Disconnect(s)

SpecGame == Init /\ [][NextGame]_vars

-----------------------------------------------------------------------------
\* The broadcast throttle and the cleanup: the server with a running clock,
\* where every round scores 0 (one choice, predicted exactly) so that the
\* scores add nothing to the state.

ThrottleNames == {Str(<<"a">>), Str(<<"b">>)}

ThrottleX == {Number(5)}

ThrottleZ == {Number(100)}

ThrottleActions == {"start_round", "resolve_round"}

\* Start-up, one window later, and a disconnection at start-up gone stale.
ThrottleInstants == {1, 1 + THROTTLE_MS, 1 + RECONNECT_GRACE_MS + 1}

NextThrottle ==
    \/ Connection
    \/ \E t \in ThrottleInstants : Tick(t)
    \/ \E s \in sockets, raw \in ThrottleNames : JoinLobby(s, raw)
    \/ \E s \in sockets, x \in ThrottleX, z \in ThrottleZ : SubmitChoice(s, x, z)
    \/ \E s \in sockets, action \in ThrottleActions, password \in Passwords :
          AdminAction(s, action, password)
    \/ \E s \in sockets : Disconnect(s)
    \/ Cleanup
    \/ BroadcastTimerFire

SpecThrottle == Init /\ [][NextThrottle]_vars

-----------------------------------------------------------------------------
\* The scoring engine alone: round 1 is open one window after start-up, each
\* of MaxSubmitters players has submitted or not and is online or not, and
\* the only event is the administrator's resolve_round. The server is there
\* once the players have joined at start-up, the round was started, they
\* submitted, some left, the window ran out and any scheduled timeout ran,
\* and the administrator's socket has just connected.

Alphabet == <<"a", "b", "c", "d", "e", "f">>

ScoreX == {5, 8}

ScoreZ == {0, 50, 100}

ScoreSubmissions ==
    {NoSubmission} \cup {Submission(x, z) : x \in ScoreX, z \in ScoreZ}

\* The i-th player of the directory: online on socket i, or offline since
\* start-up.
ScorePlayer(i, online, submission) ==
    [socketId |-> IF online THEN i ELSE 0, username |-> <<Alphabet[i]>>,
     connected |-> online, disconnectedAt |-> IF online THEN 0 ELSE 1,
     cumulativeScore |-> 0, currentRoundSubmission |-> submission]

InitScore ==
    /\ \E online \in [1..MaxSubmitters -> BOOLEAN],
          submission \in [1..MaxSubmitters -> ScoreSubmissions] :
          /\ players = [i \in 1..MaxSubmitters |->
                           ScorePlayer(i, online[i], submission[i])]
          /\ sockets = {i \in 1..MaxSubmitters : online[i]} \cup {MaxSubmitters + 1}
    /\ gameState = "round_input"
    /\ currentRound = 1
    /\ lastRoundResults = <<>>
    /\ broadcastTimer = 0
    /\ timeouts = <<>>
    /\ now = 1 + THROTTLE_MS
    /\ nextSocket = MaxSubmitters + 1
    /\ resolves = 0
    /\ subsSinceEmit = 0
    /\ lastOp = [op |-> "connection", socket |-> MaxSubmitters + 1, action |-> "",
                 phase |-> "round_input", pending |-> FALSE, replaced |-> FALSE,
                 name |-> <<>>, again |-> FALSE]
    /\ unicast = <<>>
    /\ emitted = <<>>
    /\ wire = {}

NextScore == \E s \in sockets : AdminAction(s, "resolve_round", ADMIN_PASSWORD)

SpecScore == InitScore /\ [][NextScore]_vars

-----------------------------------------------------------------------------
\* The cleanup interval at the edge of the grace period: players join and
\* leave at start-up or one millisecond later, and the sweep runs at any of
\* these instants or one millisecond past the grace period of the first.

ReaperNames == {Str(<<"a">>), Str(<<"b">>)}

ReaperInstants == {1, 2, 1 + RECONNECT_GRACE_MS + 1}

NextReaper ==
    \/ Connection
    \/ \E t \in ReaperInstants : Tick(t)
    \/ \E s \in sockets, raw \in ReaperNames : JoinLobby(s, raw)
    \/ \E s \in sockets : Disconnect(s)
    \/ Cleanup

SpecReaper == Init /\ [][NextReaper]_vars

-----------------------------------------------------------------------------
\* Submissions: round 1 has just been opened with two players in the lobby,
\* each on a socket of its own; they send every kind of x and z a client can
\* send (a whole number in or out of range, 5.5, a non-number), they leave,
\* and the administrator resolves the round.

InputX == {Number(5), Number(8), Frac(5), Number(0), Number(11), Junk}

InputZ == {Number(50), Number(100), Number(-1), Number(101), Junk}

InitInput ==
    /\ players = <<NewPlayer(<<"a">>, 1), NewPlayer(<<"b">>, 2)>>
    /\ gameState = "round_input"
    /\ currentRound = 1
    /\ lastRoundResults = <<>>
    /\ broadcastTimer = 0
    /\ timeouts = <<>>
    /\ now = 1
    /\ sockets = {1, 2}
    /\ nextSocket = 2
    /\ resolves = 0
    /\ subsSinceEmit = 0
    /\ lastOp = [op |-> "admin_action", socket |-> 2, action |-> "start_round",
                 phase |-> "lobby", pending |-> FALSE, replaced |-> FALSE,
                 name |-> <<>>, again |-> FALSE]
    /\ unicast = <<>>
    /\ emitted = <<BuildGameStatePayload(players, gameState, currentRound,
                                          lastRoundResults)>>
    /\ wire = {}

NextInput ==
    \/ \E s \in sockets, x \in InputX, z \in InputZ : SubmitChoice(s, x, z)
    \/ \E s \in sockets : AdminAction(s, "resolve_round", ADMIN_PASSWORD)
    \/ \E s \in sockets : Disconnect(s)

SpecInput == InitInput /\ [][NextInput]_vars

-----------------------------------------------------------------------------
\* Joining: clients send every kind of username (none, the empty string, a
\* blank, a name, a name in blanks, and a name of NAME_MAX + 1 characters
\* whose NAME_MAX-th is a blank), and leave.

LongName == [i \in 1..(NAME_MAX + 1) |-> IF i = NAME_MAX THEN " " ELSE "a"]

JoinNames ==
    {NotAString, Str(<<>>), Str(<<" ">>), Str(<<"a">>), Str(<<" ", "a", " ">>),
     Str(LongName)}

NextJoin ==
    \/ Connection
    \/ \E s \in sockets, raw \in JoinNames : JoinLobby(s, raw)
    \/ \E s \in sockets : Disconnect(s)

SpecJoin == Init /\ [][NextJoin]_vars

-----------------------------------------------------------------------------
\* The administrator's channel: sockets connect, players join, and every
\* admin action, known or not, arrives under the right and a wrong password.
\* Nobody submits, so every score stays 0.

AdminNames == {Str(<<"a">>), Str(<<"b">>)}

NextAdmin ==
    \/ Connection
    \/ \E s \in sockets, raw \in AdminNames : JoinLobby(s, raw)
    \/ \E s \in sockets, action \in AdminActions, password \in Passwords :
          AdminAction(s, action, password)

SpecAdmin == Init /\ [][NextAdmin]_vars

-----------------------------------------------------------------------------
\* The throttle under a running event loop: the clock moves on and a timeout
\* that is due gets its turn. Submissions arrive while a whole window still
\* fits before the last instant of the clock; every round scores 0.

LiveNames == {Str(<<"a">>), Str(<<"b">>)}

LiveX == {Number(5)}

LiveZ == {Number(100)}

LiveActions == {"start_round", "resolve_round"}

\* Start-up, one window later, two windows later.
LiveInstants == {1, 1 + THROTTLE_MS, 1 + 2 * THROTTLE_MS}

LiveEnd == 1 + 2 * THROTTLE_MS

NextLive ==
    \/ Connection
    \/ \E t \in LiveInstants : Tick(t)
    \/ \E s \in sockets, raw \in LiveNames : JoinLobby(s, raw)
    \/ \E s \in sockets, x \in LiveX, z \in LiveZ :
          now + THROTTLE_MS <= LiveEnd /\ SubmitChoice(s, x, z)
    \/ \E s \in sockets, action \in LiveActions :
          AdminAction(s, action, ADMIN_PASSWORD)
    \/ \E s \in sockets : Disconnect(s)
    \/ BroadcastTimerFire

\* setTimeout callbacks run once due, and time does not stand still.
SpecLive ==
    /\ Init
    /\ [][NextLive]_vars
    /\ WF_vars(BroadcastTimerFire)
    /\ WF_vars(\E t \in LiveInstants : Tick(t))

-----------------------------------------------------------------------------
\* Submissions in flight: round 1 has just been opened with two players;
\* a client's submit_choice is handled some time after it was sent, and the
\* administrator starts, resolves and advances rounds in between. Every
\* round scores 0.

WireX == {Number(5)}

WireZ == {Number(100)}

WireActions == {"start_round", "resolve_round", "next_round"}

NextWire ==
    \/ \E s \in sockets, x \in WireX, z \in WireZ : ClientSend(s, x, z)
    \/ \E m \in wire : SubmitChoice(m.socket, m.x, m.z)
    \/ \E s \in sockets, action \in WireActions :
          AdminAction(s, action, ADMIN_PASSWORD)
    \/ \E s \in sockets : Disconnect(s)

SpecWire == InitInput /\ [][NextWire]_vars

-----------------------------------------------------------------------------
\* Properties.

\* msgs is one error_message, sent to socket s alone.
IsErrorTo(msgs, s) ==
    Len(msgs) = 1 /\ msgs[1].event = "error_message" /\ msgs[1].to = s

\* msgs is one submission_ack, sent to socket s alone.
IsAckTo(msgs, s) ==
    Len(msgs) = 1 /\ msgs[1].event = "submission_ack" /\ msgs[1].to = s

\* The last handler was admin_action, the password matched and it looked at
\* action.
Admin(op, action) == op.op = "admin_action" /\ op.action = action

\* The phases the transition table allows each guarded action from.
LegalPhases(action) ==
    CASE action = "start_round" -> {"lobby", "round_resolution"}
      [] action = "resolve_round" -> {"round_input"}
      [] action = "next_round" -> {"round_resolution"}

GuardedActions == {"start_round", "resolve_round", "next_round"}

\* C1: with the correct secret, start_round, resolve_round and next_round
\* succeed (a game_state_update, no error) exactly from their legal phases;
\* from any other phase the caller alone gets an error naming the phase,
\* players, phase, currentRound and lastResults stay as they were and no
\* game_state_update is emitted.
C1_PhaseGuard ==
    [][\A action \in GuardedActions :
          Admin(lastOp', action) =>
             IF gameState \in LegalPhases(action)
             THEN unicast' = <<>> /\ Len(emitted') = 1
             ELSE /\ IsErrorTo(unicast', lastOp'.socket)
                  /\ unicast'[1].message[Len(unicast'[1].message)] = gameState
                  /\ UNCHANGED <<players, gameState, currentRound, lastRoundResults>>
                  /\ emitted' = <<>>]_vars

\* start_round has just been refused in final_standings, with players in
\* the directory.
C1_Witness ==
    /\ Admin(lastOp, "start_round")
    /\ lastOp.phase = "final_standings"
    /\ gameState = "final_standings"
    /\ IsErrorTo(unicast, lastOp.socket)
    /\ players # <<>>

\* The last handler was submit_choice and it accepted the submission.
Accepted(op, msgs) == op.op = "submit_choice" /\ IsAckTo(msgs, op.socket)

\* C2: a submit_choice processed in any phase other than round_input (so
\* after resolve_round has run) is refused and changes no player and not
\* lastResults; a submission is accepted only in round_input.
C2_HardCutover ==
    [][lastOp'.op = "submit_choice" =>
          /\ gameState # "round_input" =>
                /\ IsErrorTo(unicast', lastOp'.socket)
                /\ UNCHANGED <<players, lastRoundResults>>
          /\ (Accepted(lastOp', unicast') \/ players' # players) =>
                gameState = "round_input"]_vars

\* A joined player's submit_choice has just been refused in the phase
\* resolve_round left.
C2_Witness ==
    /\ lastOp.op = "submit_choice"
    /\ gameState = "round_resolution"
    /\ FindPlayerBySocketId(players, lastOp.socket) # 0
    /\ IsErrorTo(unicast, lastOp.socket)
    /\ lastRoundResults # <<>>

\* C3: an admin_action with a wrong secret, whatever its action and the
\* phase, leaves players, phase, currentRound, lastResults and the pending
\* coalesced emission alone, sends an error to the caller only and emits no
\* game_state_update.
C3_WrongSecret ==
    [][\A s \in sockets, action \in AdminActions, password \in Passwords :
          (password # ADMIN_PASSWORD /\ AdminAction(s, action, password)) =>
             /\ IsErrorTo(unicast', s)
             /\ UNCHANGED <<players, gameState, currentRound, lastRoundResults,
                            broadcastTimer, timeouts>>
             /\ emitted' = <<>>]_vars

\* A wrong secret has just been refused while a coalesced emission is
\* pending.
C3_Witness ==
    /\ lastOp.op = "admin_action"
    /\ unicast = ErrorMessage(lastOp.socket, <<"Invalid admin password.">>)
    /\ gameState = "round_input"
    /\ timeouts # <<>>

\* C4: reset with the correct secret, from any phase, yields lobby, round 1,
\* no results, every score 0 and no pending submission, and keeps the set of
\* players and each one's identity, connection, online flag and
\* disconnectedAt.
C4_Reset ==
    [][Admin(lastOp', "reset_game") =>
          /\ gameState' = "lobby"
          /\ currentRound' = 1
          /\ lastRoundResults' = <<>>
          /\ Len(players') = Len(players)
          /\ \A i \in 1..Len(players) :
                /\ players'[i].cumulativeScore = 0
                /\ ~HasSubmission(players'[i])
                /\ players'[i].username = players[i].username
                /\ players'[i].socketId = players[i].socketId
                /\ players'[i].connected = players[i].connected
                /\ players'[i].disconnectedAt = players[i].disconnectedAt]_vars

\* reset has just run in final_standings over an online and an offline
\* player.
C4_Witness ==
    /\ Admin(lastOp, "reset_game")
    /\ lastOp.phase = "final_standings"
    /\ \E i, j \in 1..Len(players) : players[i].connected /\ ~players[j].connected

\* C5: a join_lobby with an identity of the directory adds no player and
\* keeps that player's score and pending submission; it binds the new
\* connection, sets online and clears disconnectedAt. A join with an unknown
\* identity appends a player with score 0 and no pending submission. No
\* other player changes.
C5_Reconnect ==
    [][\A s \in sockets, raw \in RawNames :
          (~UsernameRejected(raw) /\ JoinLobby(s, raw)) =>
             LET i == PlayerIndex(players, CleanName(raw))
                 n == Len(players)
             IN  IF i # 0
                 THEN /\ Len(players') = n
                      /\ players'[i].username = players[i].username
                      /\ players'[i].cumulativeScore = players[i].cumulativeScore
                      /\ players'[i].currentRoundSubmission =
                            players[i].currentRoundSubmission
                      /\ players'[i].socketId = s
                      /\ players'[i].connected
                      /\ players'[i].disconnectedAt = 0
                      /\ \A j \in 1..n : j # i => players'[j] = players[j]
                 ELSE /\ Len(players') = n + 1
                      /\ players'[n + 1].username = CleanName(raw)
                      /\ players'[n + 1].cumulativeScore = 0
                      /\ ~HasSubmission(players'[n + 1])
                      /\ \A j \in 1..n : players'[j] = players[j]]_vars

\* A player with a score and a pending submission has just joined again.
C5_Witness ==
    /\ lastOp.op = "join_lobby"
    /\ Len(players) = 2
    /\ \E i \in 1..Len(players) :
          /\ players[i].socketId = lastOp.socket
          /\ players[i].cumulativeScore # 0
          /\ HasSubmission(players[i])

\* The roundScore the results hold for the player named name, 0 when they
\* hold none.
ScoreIn(results, name) ==
    LET es == {j \in 1..Len(results) : results[j].username = name}
    IN  IF es = {} THEN 0 ELSE results[CHOOSE j \in es : TRUE].roundScore

\* C8: a resolve_round from round_input adds to each submitter's score its
\* roundScore, once; a resolve_round from any other phase (the second of two
\* in a row) is refused and leaves lastResults and every score alone; and a
\* score grows only in a step that leaves round_input.
C8_AccumulateOnce ==
    [][/\ Admin(lastOp', "resolve_round") =>
             IF gameState = "round_input"
             THEN /\ gameState' = "round_resolution"
                  /\ Len(players') = Len(players)
                  /\ \A i \in 1..Len(players) :
                        players'[i].cumulativeScore =
                           players[i].cumulativeScore +
                           (IF HasSubmission(players[i])
                            THEN ScoreIn(lastRoundResults', players[i].username)
                            ELSE 0)
             ELSE /\ IsErrorTo(unicast', lastOp'.socket)
                  /\ UNCHANGED <<players, lastRoundResults>>
       /\ (\E i \in 1..Len(players) :
              /\ i <= Len(players')
              /\ players'[i].cumulativeScore # players[i].cumulativeScore
              /\ players'[i].cumulativeScore # 0) =>
             /\ Admin(lastOp', "resolve_round")
             /\ gameState = "round_input"
             /\ gameState' # "round_input"]_vars

\* A second resolve_round in a row has just been refused, the scores of the
\* first still standing.
C8_Witness ==
    /\ Admin(lastOp, "resolve_round")
    /\ lastOp.phase = "round_resolution"
    /\ IsErrorTo(unicast, lastOp.socket)
    /\ lastRoundResults # <<>>
    /\ \E i \in 1..Len(players) : players[i].cumulativeScore # 0

\* The players of ps holding a submission, and those of them who chose x.
SubmitterSet(ps) == {i \in 1..Len(ps) : HasSubmission(ps[i])}

ChoseSet(ps, x) == {i \in SubmitterSet(ps) : ps[i].currentRoundSubmission[1].x = x}

\* C6: for every submitter with choice x and prediction z, among N
\* submitters of whom k chose x: Y = (k/N)*100, baseScore = x*(1 - Y/100),
\* penalty = |Y - z|/10, roundScore = baseScore - penalty, that is
\* 10*N*roundScore = 10*x*(N-k) - |100*k - z*N|; choices 5,5,8 give k = 2,2,1
\* and Y = 200/3, 200/3, 100/3. (Scores are in units of 1/ScoreDen; a round
\* that has been resolved leaves the submissions in place.)
C6_ScoreFormula ==
    gameState = "round_resolution" =>
       LET N == Cardinality(SubmitterSet(players))
       IN  /\ \A j \in 1..Len(lastRoundResults) :
                LET r == lastRoundResults[j]
                    p == players[PlayerIndex(players, r.username)]
                    x == p.currentRoundSubmission[1].x
                    z == p.currentRoundSubmission[1].z
                    k == Cardinality(ChoseSet(players, x))
                IN  /\ r.x = x /\ r.z = z /\ r.k = k
                    /\ N * r.Y = k * 100 * ScoreDen
                    /\ 100 * r.baseScore = x * (100 * ScoreDen - r.Y)
                    /\ 10 * r.penalty = Abs(r.Y - z * ScoreDen)
                    /\ r.roundScore = r.baseScore - r.penalty
                    /\ 10 * N * r.roundScore =
                          ScoreDen * (10 * x * (N - k) - Abs(100 * k - z * N))
           /\ [j \in 1..Len(lastRoundResults) |-> lastRoundResults[j].x] = <<5, 5, 8>> =>
                /\ [j \in 1..3 |-> lastRoundResults[j].k] = <<2, 2, 1>>
                /\ [j \in 1..3 |-> 3 * lastRoundResults[j].Y] =
                      <<200 * ScoreDen, 200 * ScoreDen, 100 * ScoreDen>>

\* A round with the choices 5, 5, 8 has been resolved, one prediction above
\* and one below the true popularity.
C6_Witness ==
    /\ gameState = "round_resolution"
    /\ [j \in 1..Len(lastRoundResults) |-> lastRoundResults[j].x] = <<5, 5, 8>>
    /\ lastRoundResults[1].z = 100
    /\ lastRoundResults[3].z = 0

RECURSIVE SumOverChoices(_, _)
\* The sum, over the choices xs, of the k the results hold for each.
SumOverChoices(results, xs) ==
    IF xs = {} THEN 0
    ELSE LET x == CHOOSE x \in xs : TRUE
             j == CHOOSE j \in 1..Len(results) : results[j].x = x
         IN  results[j].k + SumOverChoices(results, xs \ {x})

\* C7: resolve_round leaves in lastResults exactly one entry for each player,
\* online or offline, that held a submission and none for anyone else; the
\* counts k of the distinct choices sum to N; a player without a submission
\* keeps its score; with N = 0 lastResults is empty and no score changes.
C7_OneResultPerSubmitter ==
    [][(Admin(lastOp', "resolve_round") /\ gameState = "round_input") =>
          LET results == lastRoundResults'
              N == Cardinality(SubmitterSet(players))
          IN  /\ \A i \in 1..Len(players) :
                    Cardinality({j \in 1..Len(results) :
                                    results[j].username = players[i].username})
                       = IF HasSubmission(players[i]) THEN 1 ELSE 0
              /\ \A j \in 1..Len(results) :
                    PlayerIndex(players, results[j].username) # 0
              /\ SumOverChoices(results, {results[j].x : j \in 1..Len(results)}) = N
              /\ Len(players') = Len(players)
              /\ \A i \in 1..Len(players) :
                    ~HasSubmission(players[i]) =>
                       players'[i].cumulativeScore = players[i].cumulativeScore
              /\ N = 0 =>
                    /\ results = <<>>
                    /\ \A i \in 1..Len(players) :
                          players'[i].cumulativeScore = players[i].cumulativeScore]_vars

\* A round has been resolved in which an offline player had submitted and an
\* online player had not.
C7_Witness ==
    /\ Admin(lastOp, "resolve_round")
    /\ gameState = "round_resolution"
    /\ \E i, j \in 1..Len(players) :
          /\ ~players[i].connected
          /\ HasSubmission(players[i])
          /\ \E r \in 1..Len(lastRoundResults) :
                lastRoundResults[r].username = players[i].username
          /\ players[j].connected
          /\ ~HasSubmission(players[j])
          /\ \A r \in 1..Len(lastRoundResults) :
                lastRoundResults[r].username # players[j].username

\* C9: an accepted submission emits nothing; while a coalesced emission is
\* pending it leaves that emission as scheduled, otherwise it schedules one
\* for 500 ms later. The timeout emits exactly one game_state_update, at or
\* after the time the first submission of the window set, covering at least
\* one submission. At no time is more than one coalesced emission pending.
C9_Coalescing ==
    /\ [](Len(timeouts) <= 1)
    /\ [][/\ Accepted(lastOp', unicast') =>
                /\ emitted' = <<>>
                /\ IF timeouts # <<>>
                   THEN UNCHANGED <<timeouts, broadcastTimer>>
                   ELSE timeouts' = <<now + THROTTLE_MS>>
          /\ lastOp'.op = "broadcast_timer" =>
                /\ Len(timeouts) = 1
                /\ now >= timeouts[1]
                /\ subsSinceEmit >= 1
                /\ timeouts' = <<>>
                /\ emitted' = <<BuildGameStatePayload(players, gameState,
                                                       currentRound,
                                                       lastRoundResults)>>]_vars

\* A second submission has just been accepted, later than the first, in a
\* window that the first one opened and that has now run out: nothing was
\* emitted and the one timeout still stands.
C9_Witness ==
    /\ Accepted(lastOp, unicast)
    /\ lastOp.pending
    /\ subsSinceEmit = 2
    /\ emitted = <<>>
    /\ Len(timeouts) = 1
    /\ timeouts[1] = now

\* The handler that ran last emits at once: a join that passed validation,
\* a disconnect, an admin action that was carried out, or a cleanup sweep
\* that removed someone.
Immediate(op, msgs, ps, psAfter) ==
    \/ op.op = "join_lobby" /\ msgs = <<>>
    \/ op.op = "disconnect"
    \/ op.op = "admin_action" /\ msgs = <<>>
    \/ op.op = "cleanup" /\ Len(psAfter) < Len(ps)

\* C10: an immediate emission emits one game_state_update of the state it
\* leaves and leaves no coalesced emission pending, so the timeout it
\* cancelled never runs; and a coalesced emission is pending only while a
\* submission accepted since the last update is still unreported.
C10_ImmediateCancels ==
    /\ [][Immediate(lastOp', unicast', players, players') =>
             /\ emitted' = <<BuildGameStatePayload(players', gameState',
                                                    currentRound',
                                                    lastRoundResults')>>
             /\ timeouts' = <<>>
             /\ broadcastTimer' = 0]_vars
    /\ [](timeouts # <<>> => subsSinceEmit >= 1 /\ broadcastTimer = timeouts[1])

\* A cleanup sweep that removed a player has just emitted while a coalesced
\* emission was pending.
C10_Witness ==
    /\ lastOp.op = "cleanup"
    /\ lastOp.pending
    /\ Len(emitted) = 1
    /\ timeouts = <<>>
    /\ broadcastTimer = 0

\* C11: at a cleanup sweep, a player offline for exactly the grace period
\* stays in the directory as it is, and a player offline for one millisecond
\* more is removed and a game_state_update of the directory without it is
\* emitted at once.
C11_PurgeBoundary ==
    [][lastOp'.op = "cleanup" =>
          \A i \in 1..Len(players) :
             LET p == players[i]
                 away == now - p.disconnectedAt
             IN  /\ (~p.connected /\ away = RECONNECT_GRACE_MS) =>
                       \E j \in 1..Len(players') : players'[j] = p
                 /\ (~p.connected /\ away = RECONNECT_GRACE_MS + 1) =>
                       /\ \A j \in 1..Len(players') : players'[j].username # p.username
                       /\ emitted' = <<BuildGameStatePayload(players', gameState',
                                                              currentRound',
                                                              lastRoundResults')>>]_vars

\* A sweep has just removed a player (one millisecond past the grace period)
\* and kept another who has been offline for exactly the grace period.
C11_Witness ==
    /\ lastOp.op = "cleanup"
    /\ Len(emitted) = 1
    /\ Len(players) = 1
    /\ ~players[1].connected
    /\ now - players[1].disconnectedAt = RECONNECT_GRACE_MS

\* x as received is an integer in [1,10].
ValidChoice(x) == x[1] = "int" /\ x[2] \in X_MIN..X_MAX

\* z as received is a number in [0,100] (of InputZ: a whole number).
ValidPrediction(z) == z[1] = "int" /\ z[2] \in Z_MIN..Z_MAX

\* C12: a submit_choice whose x is not an integer in [1,10] or whose z is not
\* a number in [0,100] gets an error_message on its own socket and nothing
\* else: no player changes, no submission_ack, nothing is emitted and no
\* emission is scheduled.
C12_InvalidRejected ==
    [][\A s \in SocketIds, x \in InputX, z \in InputZ :
          (SubmitChoice(s, x, z) /\ (~ValidChoice(x) \/ ~ValidPrediction(z))) =>
             /\ IsErrorTo(unicast', s)
             /\ players' = players
             /\ emitted' = <<>>
             /\ UNCHANGED <<broadcastTimer, timeouts>>]_vars

\* C13: in round_input every valid submit_choice of a joined socket is
\* acknowledged and puts its x and z in the place of whatever that player
\* had submitted, leaving every other player as it was; resolve_round gives
\* each player holding a submission one result, with the x and z it holds,
\* and adds that result's score once.
C13_LastWriteWins ==
    /\ [][\A s \in SocketIds, x \in InputX, z \in InputZ :
             (/\ SubmitChoice(s, x, z)
              /\ ValidChoice(x) /\ ValidPrediction(z)
              /\ gameState = "round_input"
              /\ FindPlayerBySocketId(players, s) # 0) =>
                /\ IsAckTo(unicast', s)
                /\ players' = [players EXCEPT
                                  ![FindPlayerBySocketId(players, s)].currentRoundSubmission =
                                      <<[x |-> x[2], z |-> z[2]]>>]]_vars
    /\ [][(Admin(lastOp', "resolve_round") /\ gameState = "round_input") =>
             \A i \in 1..Len(players) :
                HasSubmission(players[i]) =>
                   LET mine == {j \in 1..Len(lastRoundResults') :
                                   lastRoundResults'[j].username = players[i].username}
                   IN  /\ Cardinality(mine) = 1
                       /\ \A j \in mine :
                             /\ lastRoundResults'[j].x = players[i].currentRoundSubmission[1].x
                             /\ lastRoundResults'[j].z = players[i].currentRoundSubmission[1].z
                             /\ players'[i].cumulativeScore =
                                   players[i].cumulativeScore +
                                   lastRoundResults'[j].roundScore]_vars

\* A player's second, different submission of the round has just been
\* accepted while the other player holds a submission too.
C13_Witness ==
    /\ Accepted(lastOp, unicast)
    /\ lastOp.replaced
    /\ gameState = "round_input"
    /\ \A i \in 1..Len(players) : HasSubmission(players[i])
    /\ Len(players) = 2

\* C14: the leaderboard of an emitted game_state_update has one entry for
\* each player of the directory, online or offline, with that player's
\* connected flag and score (to two decimals); the entries run from the
\* highest score to the lowest, and entries of equal score are in the order
\* of the directory.
C14_Leaderboard ==
    emitted # <<>> =>
       LET lb == emitted[1].leaderboard
       IN  /\ Len(lb) = Len(players)
           /\ \A i \in 1..Len(players) :
                 \E a \in 1..Len(lb) :
                    /\ lb[a].username = players[i].username
                    /\ lb[a].connected = players[i].connected
                    /\ lb[a].cumulativeScore = Round2(players[i].cumulativeScore)
                    /\ \A b \in 1..Len(lb) : lb[b].username = lb[a].username => b = a
           /\ \A a, b \in 1..Len(lb) :
                 a < b =>
                    /\ lb[a].cumulativeScore >= lb[b].cumulativeScore
                    /\ lb[a].cumulativeScore = lb[b].cumulativeScore =>
                          PlayerIndex(players, lb[a].username) <
                          PlayerIndex(players, lb[b].username)

\* The third player of the directory leads a leaderboard in which the first
\* two, one of them offline, follow with equal scores in directory order.
C14_Witness ==
    /\ Len(emitted) = 1
    /\ Len(players) = 3
    /\ LET lb == emitted[1].leaderboard
       IN  /\ lb[1].username = players[3].username
           /\ lb[2].username = players[1].username
           /\ lb[3].username = players[2].username
           /\ lb[1].cumulativeScore > lb[2].cumulativeScore
           /\ lb[2].cumulativeScore = lb[3].cumulativeScore
           /\ ~lb[3].connected

\* The players of the directory that are online.
Online(ps) == {i \in 1..Len(ps) : ps[i].connected}

\* C15: an emitted game_state_update reports the phase of the state it was
\* built from; its roundResults are non-empty only in round_resolution or
\* final_standings; its playerCount is the number of online players; its
\* submittedCount is, in round_input, the number of online players holding a
\* submission and 0 in every other phase, so never above playerCount.
C15_SnapshotCounts ==
    emitted # <<>> =>
       LET m == emitted[1]
       IN  /\ m.phase = gameState
           /\ m.roundResults # <<>> => m.phase \in {"round_resolution", "final_standings"}
           /\ m.playerCount = Cardinality(Online(players))
           /\ m.phase = "round_input" =>
                 m.submittedCount =
                    Cardinality({i \in Online(players) : players[i].currentRoundSubmission # <<>>})
           /\ m.phase # "round_input" => m.submittedCount = 0
           /\ m.submittedCount <= m.playerCount

\* A game_state_update emitted in round_input while one of two submitters is
\* offline: it counts one player and one submission.
C15_Witness ==
    /\ Len(emitted) = 1
    /\ emitted[1].phase = "round_input"
    /\ emitted[1].playerCount = 1
    /\ emitted[1].submittedCount = 1
    /\ Len(players) = 2
    /\ \A i \in 1..Len(players) : HasSubmission(players[i])

\* C16: for every player of the directory, disconnectedAt is set exactly
\* when the player is offline, and socketId is set exactly when the player
\* is online.
C16_OnlineFields ==
    \A i \in 1..Len(players) :
       /\ players[i].disconnectedAt # 0 <=> ~players[i].connected
       /\ players[i].socketId # 0 <=> players[i].connected

\* A socket has just closed: its player is offline since now, next to a
\* player that is online.
C16_Witness ==
    /\ lastOp.op = "disconnect"
    /\ \E i, j \in 1..Len(players) :
          /\ ~players[i].connected
          /\ players[i].disconnectedAt = now
          /\ players[i].socketId = 0
          /\ players[j].connected
          /\ players[j].socketId # 0
          /\ players[j].disconnectedAt = 0

\* No player of ps holds a submission.
NoneSubmitted(ps) == \A i \in 1..Len(ps) : ~HasSubmission(ps[i])

\* The last handler was admin_action and it carried out action.
Did(op, msgs, action) == Admin(op, action) /\ msgs = <<>>

WellFormed(name) ==
    /\ Len(name) \in 1..NAME_MAX
    /\ ~IsSpace(name[1])
    /\ ~IsSpace(name[Len(name)])

\* A username that is missing, not a string, empty, or empty once trimmed.
Unusable(raw) == ~raw.isString \/ Trim(raw.chars) = <<>>

\* C18: every player of the directory has a well-formed identity, and a
\* join_lobby with an unusable username gets an error_message and leaves the
\* directory as it was.
C18_ValidIdentity ==
    /\ [](\A i \in 1..Len(players) : WellFormed(players[i].username))
    /\ [][\A s \in SocketIds, raw \in JoinNames :
             (JoinLobby(s, raw) /\ Unusable(raw)) =>
                IsErrorTo(unicast', s) /\ players' = players]_vars

\* C19: currentRound is always one of 1..TOTAL_ROUNDS; a next_round that is
\* carried out starts in round_resolution and, in round TOTAL_ROUNDS, goes
\* to final_standings with currentRound as it was, and in any earlier round
\* adds one to currentRound, leaves no player holding a submission, empties
\* lastRoundResults and goes to round_input; final_standings is only ever
\* the phase in round TOTAL_ROUNDS.
C19_RoundCounter ==
    /\ [](currentRound \in 1..TOTAL_ROUNDS)
    /\ [](gameState = "final_standings" => currentRound = TOTAL_ROUNDS)
    /\ [][Did(lastOp', unicast', "next_round") =>
             /\ gameState = "round_resolution"
             /\ IF currentRound = TOTAL_ROUNDS
                THEN /\ gameState' = "final_standings"
                     /\ currentRound' = currentRound
                ELSE /\ gameState' = "round_input"
                     /\ currentRound' = currentRound + 1
                     /\ NoneSubmitted(players')
                     /\ lastRoundResults' = <<>>]_vars

\* next_round has just closed round TOTAL_ROUNDS, in which a player scored.
C19_Witness ==
    /\ Did(lastOp, unicast, "next_round")
    /\ lastOp.phase = "round_resolution"
    /\ gameState = "final_standings"
    /\ currentRound = TOTAL_ROUNDS
    /\ lastRoundResults # <<>>

\* C20: the phase goes from round_resolution to round_input only in a round
\* before TOTAL_ROUNDS, and then into the next round.
C20_NoReopenAfterLastRound ==
    [][(gameState = "round_resolution" /\ gameState' = "round_input") =>
          currentRound < TOTAL_ROUNDS]_vars

\* The requests that final_standings refuses.
RefusedWhenFinal(op) ==
    \/ op.op = "submit_choice"
    \/ Admin(op, "start_round")
    \/ Admin(op, "resolve_round")
    \/ Admin(op, "next_round")

\* C21: the server starts in the lobby; in final_standings a start_round,
\* resolve_round, next_round or submit_choice gets an error_message, and any
\* step other than a reset_game that is carried out leaves the phase,
\* currentRound, lastRoundResults and the score of every player alone.
C21_FinalIsTerminal ==
    /\ [](lastOp.op = "listen" => gameState = "lobby")
    /\ [][(gameState = "final_standings" /\ RefusedWhenFinal(lastOp')) =>
             IsErrorTo(unicast', lastOp'.socket)]_vars
    /\ [][(gameState = "final_standings" /\ ~Did(lastOp', unicast', "reset_game")) =>
             /\ gameState' = "final_standings"
             /\ currentRound' = currentRound
             /\ lastRoundResults' = lastRoundResults
             /\ \A i \in 1..Len(players) :
                   \A j \in 1..Len(players') :
                      players'[j].username = players[i].username =>
                         players'[j].cumulativeScore = players[i].cumulativeScore]_vars

\* In final_standings, reached with a scored round behind, start_round has
\* just been refused.
C21_Witness ==
    /\ lastOp.phase = "final_standings"
    /\ Admin(lastOp, "start_round")
    /\ IsErrorTo(unicast, lastOp.socket)
    /\ gameState = "final_standings"
    /\ lastRoundResults # <<>>

KnownActions == {"start_round", "resolve_round", "next_round", "reset_game"}

InGrace(p, t) == p.connected \/ t - p.disconnectedAt <= RECONNECT_GRACE_MS

\* C24: a sweep keeps, unchanged, every player that is online or has been
\* offline for no longer than the grace period; it adds and alters no player
\* and leaves the phase, the round and the last results alone; it emits a
\* game_state_update exactly when it removed a player.
C24_ReaperFrame ==
    [][lastOp'.op = "cleanup" =>
          /\ \A i \in 1..Len(players) :
                InGrace(players[i], now) => \E j \in 1..Len(players') : players'[j] = players[i]
          /\ \A j \in 1..Len(players') : \E i \in 1..Len(players) : players'[j] = players[i]
          /\ UNCHANGED <<gameState, currentRound, lastRoundResults>>
          /\ unicast' = <<>>
          /\ (emitted' # <<>>) <=> (Len(players') < Len(players))]_vars

\* A sweep has just removed a player and kept another who is offline but
\* still within its grace period.
C24_Witness ==
    /\ lastOp.op = "cleanup"
    /\ emitted # <<>>
    /\ \E i \in 1..Len(players) :
          /\ ~players[i].connected
          /\ now - players[i].disconnectedAt <= RECONNECT_GRACE_MS
          /\ now - players[i].disconnectedAt > 0

\* C25: when a socket closes, every player bound to it is marked offline as
\* of now with its socket cleared, its score and its submission kept; every
\* other player is untouched (so nothing changes when no player is bound to
\* the socket); no message goes to the caller, and the phase, the round and
\* the last results stay as they are.
C25_DisconnectFrame ==
    [][lastOp'.op = "disconnect" =>
          /\ Len(players') = Len(players)
          /\ \A i \in 1..Len(players) :
                players'[i] = IF players[i].socketId = lastOp'.socket
                              THEN MarkOffline(players[i], now)
                              ELSE players[i]
          /\ unicast' = <<>>
          /\ UNCHANGED <<gameState, currentRound, lastRoundResults>>]_vars

\* C26: a start_round accepted in round_resolution begins round
\* currentRound + 1.
C26_StartRoundAdvances ==
    [][(gameState = "round_resolution" /\ Did(lastOp', unicast', "start_round")) =>
          /\ gameState' = "round_input"
          /\ currentRound' = currentRound + 1]_vars

\* C30: no two players hold the same socket.
C30_OnePlayerPerSocket ==
    \A i, j \in 1..Len(players) :
       (i # j /\ players[i].socketId # 0) => players[i].socketId # players[j].socketId

\* C27: a submit_choice that is not refused sends one submission_ack, to the
\* submitter, and emits nothing itself; and after every accepted submission
\* a game_state_update of the state then current is eventually emitted.
C27_EventuallyReported ==
    /\ [][(lastOp'.op = "submit_choice" /\ ~IsErrorTo(unicast', lastOp'.socket)) =>
             /\ IsAckTo(unicast', lastOp'.socket)
             /\ Len(unicast') = 1
             /\ emitted' = <<>>]_vars
    /\ Accepted(lastOp, unicast) ~>
          emitted = <<BuildGameStatePayload(players, gameState, currentRound,
                                            lastRoundResults)>>

\* The timeout has just run one window after the first of two submissions
\* and reported both.
C27_Witness ==
    /\ lastOp.op = "broadcast_timer"
    /\ now = 1 + THROTTLE_MS
    /\ Len(emitted) = 1
    /\ emitted[1].submittedCount = 2

\* The snapshot that would be built from the current state.
Snapshot == BuildGameStatePayload(players, gameState, currentRound, lastRoundResults)

\* The snapshot that would be built from the state a step leaves.
SnapshotAfter ==
    BuildGameStatePayload(players', gameState', currentRound', lastRoundResults')

\* C28: once a game_state_update has been emitted, the last one emitted is
\* the snapshot of the current state whenever no coalesced emission is
\* pending. Step by step: every emission is the snapshot of the state the
\* step leaves; a step that changes the snapshot emits or leaves a coalesced
\* emission pending; and a step that ends a pending emission emits.
C28_NeverStale ==
    /\ [][emitted' # <<>> => emitted' = <<SnapshotAfter>>]_vars
    /\ [][SnapshotAfter # Snapshot => (emitted' # <<>> \/ broadcastTimer' # 0)]_vars
    /\ [][(broadcastTimer # 0 /\ broadcastTimer' = 0) => emitted' # <<>>]_vars
    /\ [](broadcastTimer # 0 <=> timeouts # <<>>)

\* A disconnect during round_input has just superseded a pending coalesced
\* emission: nothing is pending and the snapshot emitted counts the
\* submission made before it.
C28_Witness ==
    /\ lastOp.op = "disconnect"
    /\ lastOp.pending
    /\ gameState = "round_input"
    /\ broadcastTimer = 0
    /\ emitted = <<Snapshot>>
    /\ emitted[1].submittedCount >= 1

\* C29: a coalesced emission is pending only in round_input; a step that
\* changes the phase leaves none pending and no timeout scheduled; and the
\* game_state_update the timeout emits reports round_input with no round
\* results.
C29_PendingOnlyInInput ==
    /\ []((broadcastTimer # 0 \/ timeouts # <<>>) => gameState = "round_input")
    /\ [][gameState' # gameState => (broadcastTimer' = 0 /\ timeouts' = <<>>)]_vars
    /\ [][lastOp'.op = "broadcast_timer" =>
             /\ Len(emitted') = 1
             /\ emitted'[1].phase = "round_input"
             /\ emitted'[1].roundResults = <<>>]_vars

\* resolve_round has just left round_input while a coalesced emission was
\* pending, and none is pending now.
C29_Witness ==
    /\ Did(lastOp, unicast, "resolve_round")
    /\ lastOp.pending
    /\ gameState = "round_resolution"
    /\ broadcastTimer = 0
    /\ timeouts = <<>>

\* C31: every player that is online is bound to a socket that is open (no
\* player stays online once the sockets it was bound to have closed).
C31_OnlineOnOpenSocket ==
    \A i \in 1..Len(players) :
       players[i].connected => players[i].socketId \in sockets

\* C33: since the last reset, no round has been resolved twice: the number
\* of resolutions is at most currentRound, and at most TOTAL_ROUNDS.
C33_EachRoundResolvedOnce ==
    /\ resolves <= currentRound
    /\ resolves <= TOTAL_ROUNDS

\* The usernames of a snapshot's leaderboard and of its round results.
LeaderboardNames(payload) ==
    {payload.leaderboard[i].username : i \in 1..Len(payload.leaderboard)}

ResultNames(payload) ==
    {payload.roundResults[i].username : i \in 1..Len(payload.roundResults)}

\* C34: in every game_state_update emitted in round_resolution or
\* final_standings, every username of roundResults is on the leaderboard.
C34_ResultsOnLeaderboard ==
    \A i \in 1..Len(emitted) :
       ShowsResults(emitted[i].phase) =>
          ResultNames(emitted[i]) \subseteq LeaderboardNames(emitted[i])

\* C35: in the lobby the round is 1, there are no round results, and every
\* player has score 0 and no submission; in round_input there are no round
\* results.
C35_LobbyIsFresh ==
    /\ gameState = "lobby" =>
          /\ currentRound = 1
          /\ lastRoundResults = <<>>
          /\ \A i \in 1..Len(players) :
                /\ players[i].cumulativeScore = 0
                /\ ~HasSubmission(players[i])
    /\ gameState = "round_input" => lastRoundResults = <<>>

\* reset_game has just brought the game back to the lobby from a resolved
\* round, with players in the directory, and emitted the fresh lobby.
C35_Witness ==
    /\ Did(lastOp, unicast, "reset_game")
    /\ lastOp.phase = "round_resolution"
    /\ gameState = "lobby"
    /\ resolves = 0
    /\ players # <<>>
    /\ emitted # <<>>
    /\ emitted[1].currentRound = 1

\* C38: with N results of a round (scores in units of 1/ScoreDen), each has
\* 0 <= baseScore <= x * (1 - 1/N) < 10 and 0 <= penalty <= 10, hence
\* -10 <= roundScore < 10; baseScore is 0 exactly when all N submitters chose
\* the same x; and a sole submitter scores -(100 - z) / 10, which is at
\* most 0.
C38_ScoreBounds ==
    LET N == Len(lastRoundResults)
    IN  /\ \A i \in 1..N :
              LET r == lastRoundResults[i]
              IN  /\ 0 <= r.baseScore
                  /\ N * r.baseScore <= r.x * (N - 1) * ScoreDen
                  /\ r.x * (N - 1) < 10 * N
                  /\ r.baseScore < 10 * ScoreDen
                  /\ 0 <= r.penalty
                  /\ r.penalty <= 10 * ScoreDen
                  /\ -10 * ScoreDen <= r.roundScore
                  /\ r.roundScore < 10 * ScoreDen
                  /\ (r.baseScore = 0) <=>
                        (\A j \in 1..N : lastRoundResults[j].x = r.x)
        /\ N = 1 =>
              /\ 10 * lastRoundResults[1].roundScore =
                    -(100 - lastRoundResults[1].z) * ScoreDen
              /\ lastRoundResults[1].roundScore <= 0

\* A round of three submitters has just been resolved in which two chose
\* the same x, with a base score above 0, and the third chose another x and
\* lost points.
C38_Witness ==
    /\ Did(lastOp, unicast, "resolve_round")
    /\ Len(lastRoundResults) = 3
    /\ \E i, j \in 1..3 :
          /\ lastRoundResults[i].x # lastRoundResults[j].x
          /\ lastRoundResults[i].k = 2
          /\ lastRoundResults[i].baseScore > 0
          /\ lastRoundResults[j].roundScore < 0

\* C37: a join_lobby that repeats the join handled just before it (same
\* socket, same username) leaves the directory, the session and the throttle
\* exactly as the first join left them, with one entry of that username, and
\* emits the game_state_update the first join emitted once more.
C37_JoinIdempotent ==
    [][(lastOp'.op = "join_lobby" /\ lastOp'.again) =>
          /\ UNCHANGED <<game, broadcastTimer, timeouts, sockets>>
          /\ Cardinality({i \in 1..Len(players') :
                             players'[i].username = lastOp'.name}) = 1
          /\ unicast' = <<>>
          /\ Len(emitted') = 1
          /\ emitted' = emitted]_vars

\* A player holding a submission in round_input has just joined a second
\* time in a row from the same socket.
C37_Witness ==
    /\ lastOp.op = "join_lobby"
    /\ lastOp.again
    /\ gameState = "round_input"
    /\ \E i \in 1..Len(players) :
          /\ players[i].username = lastOp.name
          /\ players[i].socketId = lastOp.socket
          /\ HasSubmission(players[i])

\* C36: a submit_choice handled after the round it was sent in has been
\* resolved (in round_resolution, or in a round opened since) is refused
\* and stored as nobody's submission.
C36_NoLateSubmission ==
    [][\A m \in wire :
          (SubmitChoice(m.socket, m.x, m.z) /\ m.resolves < resolves) =>
             /\ IsErrorTo(unicast', m.socket)
             /\ players' = players]_vars

\* The accepted join_lobby of the step takes the identity of player i over
\* from socket a: the player was bound to a, a is still open, and the join
\* came on another socket.
TakesOver(i, a) ==
    /\ lastOp'.op = "join_lobby"
    /\ unicast' = <<>>
    /\ i = PlayerIndex(players, lastOp'.name)
    /\ i # 0
    /\ players[i].socketId = a
    /\ a \in sockets
    /\ a # lastOp'.socket

\* C32: once an identity bound to an open socket A has been joined from a
\* socket B, the player is online and bound to B and no player is bound to
\* A; and on a socket no player is bound to, a submit_choice is refused with
\* 'You must join the lobby first.' and changes no player, and the closing
\* of the socket changes no player.
C32_TakeoverReleasesSocket ==
    /\ [][\A i \in 1..Len(players), a \in SocketIds :
             TakesOver(i, a) =>
                /\ players'[i].socketId = lastOp'.socket
                /\ players'[i].connected
                /\ players'[i].disconnectedAt = 0
                /\ FindPlayerBySocketId(players', a) = 0]_vars
    /\ [][(lastOp'.op = "submit_choice"
           /\ FindPlayerBySocketId(players, lastOp'.socket) = 0) =>
             /\ unicast' = ErrorMessage(lastOp'.socket, <<"You must join the lobby first.">>)
             /\ players' = players]_vars
    /\ [][(lastOp'.op = "disconnect"
           /\ FindPlayerBySocketId(players, lastOp'.socket) = 0) =>
             players' = players]_vars

====
